---- MODULE Spec2Model ----
(***************************************************************************)
(* Authoritative game server, its reliability layer and the thin clients   *)
(* of network.py / main.py / player.py / scope.py.                         *)
(*                                                                         *)
(* Numbers.  Lengths and velocities are fixed-point integers with Scale    *)
(* steps per world unit (the source uses floats); time is counted in whole *)
(* seconds.  Players move on the x axis only: the keys that the modelled   *)
(* clients press are K_a, K_d and K_SPACE, so every y component stays 0.   *)
(***************************************************************************)
EXTENDS Integers, Sequences, FiniteSets, TLC

\* ------------------------------------------------------------------ bounds
MaxId == 3          \* connects are accepted while next_id <= MaxId
MaxCount == 3       \* ticks are taken while the SetRadius counter < MaxCount
MaxDt == 3          \* at most MaxDt seconds pass between two ticks
NetCap == 1         \* datagrams in flight towards one client
QueueCap == 1       \* datagrams queued at the server socket
LateCap == 1        \* datagrams per client that the network delivers again
MaxLen == 8         \* actions in a run of Spec and SpecDup
MaxOid == 4         \* objects created in a run of SpecCodec
MaxLong == 10       \* actions in a run of SpecReconnect

\* --------------------------------------------------------------- constants
Scale == 10                 \* fixed-point steps per world unit
PROTOCOL_ID == 718420690
client_timeout == 2
InitRadius == 20 * Scale    \* Scope.circle_radius default
FloorRadius == 2 * Scale    \* "if self.scope.circle_radius > 2"
ShrinkNum == 4              \* 0.4 world units per second = 4 steps at Scale 10
input_force == 325
mass == 50
drag == 4
brake == 25
radius == 5                 \* Player.radius 0.5 world units
K_a == 97
K_d == 100
K_SPACE == 32
K_LEFT == 1073741904
K_RIGHT == 1073741903

Address == {"a1", "a2"}     \* (host, port) of the client sockets
Keys == {K_d}               \* keys the modelled clients press and release
TimeSteps == {3}            \* amounts by which the wall clock advances
IdleCap == client_timeout + 1   \* ages above the timeout are not told apart
Receivers == {"a1"}         \* clients whose inbound datagrams are not all lost
None == 0                   \* Scope.id_ default
PORT == 39311
ServerHost == "server"      \* Client.host: the host the client was given
\* the (host, port) that the server's socket is bound to
ServerAddress == [host |-> ServerHost, port |-> PORT]
\* other senders: another socket on the server's host, and another host
Sources == {[host |-> ServerHost, port |-> PORT + 1],
            [host |-> "other", port |-> PORT]}

VARIABLES
    \* Server
    clients,          \* Server.clients: sequence of addresses
    timeouts,         \* Server.timeouts: address -> seconds since last activity
    not_acknoledged,  \* Server.not_acknoledged: set of <<address, payload>>
    \* GameServer
    next_id, address_to_id, pressed_keys, scope, since_tick,
    radius_counter,   \* SetRadiusCommand._global_counter
    position_counter, \* SetPositionCommand._global_counter
    running,          \* FALSE once an exception has left Server.step()
    \* network
    srv_queue,        \* datagrams queued at the server socket
    net,              \* net[a]: datagrams on their way to the client at a
    late,             \* late[a]: delivered datagrams that will arrive again
    foreign,          \* foreign[a]: datagrams of other senders in the socket
                      \* buffer of the client at a, with their source
    \* clients (MainScene)
    cscope,           \* cscope[a]: the replica Scope of the client at a
    max_count,        \* max_count[a][type]: watermark of a latest-only type
    crashed,          \* crashed[a]: an exception left the client's main loop
    applied,          \* applied[a]: the commands whose run() has changed the
                      \* replica of the client at a (history)
    \* history
    resent,           \* <<address, payload>> pairs re-sent by the last update()
    history,          \* connects, disconnects and eliminations, in order
    events,           \* what the last action did; sent: what recive() has
                      \* handed to the socket; rerun: it ran the command
                      \* that the action before it had run on the same client
    len,              \* the number of actions taken so far
    codec             \* codec.x: an object in memory, codec.y: what decoding
                      \* its encoding has returned, codec.next_oid: the
                      \* identity of the next object that is created

vars == <<clients, timeouts, not_acknoledged, next_id, address_to_id,
          pressed_keys, scope, since_tick, radius_counter, position_counter,
          running, srv_queue, net, late, foreign, cscope, max_count, crashed,
          resent, history, events, len, codec, applied>>

\* ---------------------------------------------------------------- helpers
Range(s) == {s[i] : i \in DOMAIN s}
Abs(x) == IF x < 0 THEN -x ELSE x
Sign(x) == IF x < 0 THEN -1 ELSE IF x > 0 THEN 1 ELSE 0
Min(a, b) == IF a < b THEN a ELSE b
\* float division, truncated towards zero at the fixed-point resolution
Div(a, b) == Sign(a) * Sign(b) * (Abs(a) \div Abs(b))
\* dict helpers: a dict is a function whose DOMAIN is the key set
Put(d, k, v) == [x \in DOMAIN d \cup {k} |-> IF x = k THEN v ELSE d[x]]
Del(d, k) == [x \in DOMAIN d \ {k} |-> d[x]]
\* the element of a singleton; The({e(y) : y \in {x}}) is e(x) with x
\* evaluated once, as a statement of the source computes a value once
The(S) == CHOOSE r \in S : TRUE
Remove(s, e) == SelectSeq(s, LAMBDA x : x # e)
RECURSIVE SortedSeq(_)
SortedSeq(S) ==
    IF S = {} THEN <<>>
    ELSE LET m == CHOOSE x \in S : \A y \in S : x <= y
         IN <<m>> \o SortedSeq(S \ {m})

\* --------------------------------------------------------------- payloads
SetIdCommand(id) == [type |-> "SetId", id_ |-> id]
RemovePlayerCommand(id) == [type |-> "RemovePlayer", id_ |-> id]
SetRadiusCommand(r, c) == [type |-> "SetRadius", radius |-> r, count |-> c]
SetPositionCommand(id, p, a, v, c) ==
    [type |-> "SetPosition", id_ |-> id, position |-> p,
     last_acceleration |-> a, velocity |-> v, count |-> c]
KeyDownInput(k) == [type |-> "KeyDown", key |-> k]
KeyUpInput(k) == [type |-> "KeyUp", key |-> k]
Ping == [type |-> "Ping"]
Acknowledge(obj) == [type |-> "Acknowledge", obj |-> obj]

\* a protocol in which no payload type is acknowledged
AcknowledgedNone(obj) == FALSE

\* isinstance(obj, Acknowledged)
Acknowledged(obj) == obj.type \in {"SetId", "RemovePlayer"}
\* isinstance(obj, OnlyMostRecentCommand)
OnlyMostRecent(obj) == obj.type \in {"SetRadius", "SetPosition"}

\* PROTOCOL_HEADER + pickle.dumps(obj)
Encode(obj) == [header |-> PROTOCOL_ID, body |-> obj]
\* bytes that are not the pickle of anything: pickle.loads raises on them
Garbage == [type |-> "Garbage"]
\* pickle.loads(body) returns an object
Decodable(body) == body # Garbage
\* a prefix test that lets every datagram pass
startswith_anything(data) == TRUE
\* data.startswith(PROTOCOL_HEADER)
startswith(data) == data.header = PROTOCOL_ID
\* a datagram that does not start with the protocol identifier
BadHeader(obj) == [header |-> 0, body |-> obj]

\* An object in memory is a value of a payload class (the record val: the
\* class and the attributes of its __dict__) with an identity oid.  The
\* handlers above and below work on the values alone.
new(val, oid) == [oid |-> oid, val |-> val]
NoObject == [oid |-> 0, val |-> [type |-> "None"]]
\* pickle.dumps(obj): the class and the state of obj, not its identity
dumps(o) == o.val
\* pickle.loads(data): a new object of the pickled class with the pickled
\* state; __init__ and __post_init__ are not called
loads(b, oid) == [oid |-> oid, val |-> b]
\* Client.send / Server.send_to: PROTOCOL_HEADER + pickle.dumps(obj)
encode(o) == Encode(dumps(o))
\* Client.recive / Server._handle_messages: prefix test, removeprefix, loads
decode(data, oid) ==
    IF startswith(data) /\ Decodable(data.body) THEN loads(data.body, oid)
    ELSE NoObject
\* the classes that @dataclass gives an __eq__; Ping has object.__eq__
DataClasses == {"SetId", "RemovePlayer", "SetRadius", "SetPosition",
                "KeyDown", "KeyUp", "Acknowledge"}
\* the fields that the generated __eq__ compares: _count is not one of them
Fields(val) == [f \in DOMAIN val \ {"type", "count"} |-> val[f]]
\* x == y in the program
Eq(x, y) ==
    IF x.val.type \in DataClasses
    THEN x.val.type = y.val.type /\ Fields(x.val) = Fields(y.val)
    ELSE x.oid = y.oid

\* Player(id_): a player at rest in the arena centre
NewPlayer(id) == [id |-> id, position |-> 0, velocity |-> 0,
                  last_acceleration |-> 0]

\* ------------------------------------------------------ player.py: Player
\* Player.input_vector, on the x axis
input_vector(keys) ==
    LET left == IF K_a \in keys \/ K_LEFT \in keys THEN -1 ELSE 0
        right == IF K_d \in keys \/ K_RIGHT \in keys THEN 1 ELSE 0
    IN Sign(left + right)

\* Player.update = Player.input then Player.physics; the force accumulator is
\* zero between two calls, so it is local here.  Forces carry one factor Scale.
PlayerUpdate(p, keys, dt) ==
    LET force0 == input_vector(keys) * input_force * Scale
        braking == K_SPACE \in keys
        v == p.velocity
        drag_force == Div(v * v * drag, Scale)
        force1 == IF v # 0 THEN force0 - Sign(v) * drag_force ELSE force0
        brake_force == Div(v * v * brake, Scale)
        force2 == IF braking /\ v # 0 THEN force1 - Sign(v) * brake_force
                  ELSE force1
        \* incosistent_surface = 0.002 world units
        v1 == IF Abs(v) * 1000 > 2 * Scale
              THEN v - Sign(v) * Div(2 * Scale, 1000) ELSE 0
        acceleration == Div(force2, mass)
        v2 == v1 + acceleration * dt
    IN [p EXCEPT !.velocity = v2, !.position = p.position + v2 * dt]

\* an iteration that reads self.velocity again after having assigned it
CollideOneStale(players, self, other) ==
    LET m == mass
        M == mass
        U == players[other].velocity
        u == Div(2 * M * U - M * players[self].velocity
                 + m * players[self].velocity, M + m)
    IN IF self > other
          /\ Abs(players[self].position - players[other].position)
               < radius + radius
       THEN [players EXCEPT
               ![self].velocity = u,
               ![other].velocity = Div(M * U - U * m + 2 * m * u, M + m)]
       ELSE players

\* an iteration that lets either player of the pair resolve the collision
CollideOneAnyOrder(players, self, other) ==
    LET m == mass
        M == mass
        u == players[self].velocity
        U == players[other].velocity
    IN IF self # other
          /\ Abs(players[self].position - players[other].position)
               < radius + radius
       THEN [players EXCEPT
               ![self].velocity = Div(2 * M * U - M * u + m * u, M + m),
               ![other].velocity = Div(M * U - U * m + 2 * m * u, M + m)]
       ELSE players

\* one iteration of the loop of Player.collision: self against other
CollideOne(players, self, other) ==
    LET m == mass
        M == mass
        u == players[self].velocity
        U == players[other].velocity
    IN IF self > other
          /\ Abs(players[self].position - players[other].position)
               < radius + radius
       THEN [players EXCEPT
               ![self].velocity = Div(2 * M * U - M * u + m * u, M + m),
               ![other].velocity = Div(M * U - U * m + 2 * m * u, M + m)]
       ELSE players

\* Player.collision(others): others in dict order
RECURSIVE Collision(_, _, _)
Collision(players, self, others) ==
    IF others = <<>> THEN players
    ELSE The({Collision(collided, self, Tail(others)) :
                 collided \in {CollideOne(players, self, Head(others))}})


\* history: the calls of the loop body that Player.collision(others) makes,
\* each with the pair self, other before and after it
RECURSIVE Exchanges(_, _, _)
Exchanges(players, self, others) ==
    IF others = <<>> THEN <<>>
    ELSE The({<<[self |-> self, other |-> Head(others),
                 before |-> <<players[self], players[Head(others)]>>,
                 after |-> <<collided[self], collided[Head(others)]>>]>>
              \o Exchanges(collided, self, Tail(others)) :
                 collided \in {CollideOne(players, self, Head(others))}})

\* --------------------------------------------- network.py: Command.run
\* a run() of SetPositionCommand that moves the player by the position
old_run_additive(obj, sc) ==
    CASE obj.type = "SetId" ->
           [scope |-> [sc EXCEPT !.id_ = obj.id_], raised |-> FALSE]
      [] obj.type = "SetRadius" ->
           [scope |-> [sc EXCEPT !.circle_radius = obj.radius],
            raised |-> FALSE]
      [] obj.type = "RemovePlayer" ->
           IF obj.id_ \in DOMAIN sc.players
           THEN [scope |-> [sc EXCEPT !.players = Del(sc.players, obj.id_)],
                 raised |-> FALSE]
           ELSE [scope |-> sc, raised |-> TRUE]
      [] obj.type = "SetPosition" ->
           LET player == IF obj.id_ \in DOMAIN sc.players
                         THEN sc.players[obj.id_] ELSE NewPlayer(obj.id_)
           IN [scope |-> [sc EXCEPT !.players = Put(sc.players, obj.id_,
                     [player EXCEPT !.position = @ + obj.position,
                         !.last_acceleration = obj.last_acceleration,
                         !.velocity = obj.velocity])],
               raised |-> FALSE]

\* the body of run() of each command type (old_run for the latest-only types);
\* raised: the KeyError of "del scope.players[self.id_]"
old_run(obj, sc) ==
    CASE obj.type = "SetId" ->
           [scope |-> [sc EXCEPT !.id_ = obj.id_], raised |-> FALSE]
      [] obj.type = "SetRadius" ->
           [scope |-> [sc EXCEPT !.circle_radius = obj.radius],
            raised |-> FALSE]
      [] obj.type = "RemovePlayer" ->
           IF obj.id_ \in DOMAIN sc.players
           THEN [scope |-> [sc EXCEPT !.players = Del(sc.players, obj.id_)],
                 raised |-> FALSE]
           ELSE [scope |-> sc, raised |-> TRUE]
      [] obj.type = "SetPosition" ->
           LET player == IF obj.id_ \in DOMAIN sc.players
                         THEN sc.players[obj.id_] ELSE NewPlayer(obj.id_)
           IN [scope |-> [sc EXCEPT !.players = Put(sc.players, obj.id_,
                     [player EXCEPT !.position = obj.position,
                         !.last_acceleration = obj.last_acceleration,
                         !.velocity = obj.velocity])],
               raised |-> FALSE]

\* a watermark test that also rejects the replay of the newest command
AcceptsStrict(count, watermark) == count > watermark

\* OnlyMostRecentCommand.__init_subclass__.new_run: the test on the watermark
Accepts(count, watermark) == count >= watermark

\* a dispatch with one watermark shared by the two latest-only types
RunSharedWatermark(obj, sc, mc) ==
    IF OnlyMostRecent(obj)
    THEN IF Accepts(obj.count, mc[obj.type])
         THEN LET r == old_run(obj, sc)
              IN [scope |-> r.scope, raised |-> r.raised,
                  max_count |-> [t \in DOMAIN mc |-> obj.count]]
         ELSE [scope |-> sc, raised |-> FALSE, max_count |-> mc]
    ELSE LET r == old_run(obj, sc)
         IN [scope |-> r.scope, raised |-> r.raised, max_count |-> mc]

\* cmd.run(scope) as dispatched for a payload obj; mc is the pair of
\* class attributes _max_count of the two latest-only types
Run(obj, sc, mc) ==
    IF OnlyMostRecent(obj)
    THEN IF Accepts(obj.count, mc[obj.type])
         THEN LET r == old_run(obj, sc)
              IN [scope |-> r.scope, raised |-> r.raised,
                  max_count |-> [mc EXCEPT ![obj.type] = obj.count]]
         ELSE [scope |-> sc, raised |-> FALSE, max_count |-> mc]
    ELSE LET r == old_run(obj, sc)
         IN [scope |-> r.scope, raised |-> r.raised, max_count |-> mc]

\* ------------------------------------------------------------ the network
\* Datagrams that send_to hands to the socket for address a are lost or reach
\* the client's receive buffer, which holds at most NetCap datagrams.
Arrivals(a, sent) ==
    IF a \in Receivers
    THEN {S \in SUBSET sent : Cardinality(net[a] \cup S) <= NetCap}
    ELSE {{}}

\* every way the datagrams out[a], a \in as, can reach the clients
RECURSIVE NetAfter(_, _)
NetAfter(as, out) ==
    IF as = {} THEN {net}
    ELSE LET a == CHOOSE x \in as : TRUE
         IN {[n EXCEPT ![a] = net[a] \cup S] :
                n \in NetAfter(as \ {a}, out), S \in Arrivals(a, out[a])}

NoOut == [a \in Address |-> {}]
\* Server.send_to(address, obj, acknoledge): the part that writes the socket
SendTo(out, a, obj) == [out EXCEPT ![a] = @ \cup {Encode(obj)}]
\* Server.send_to_all(obj)
RECURSIVE SendToAll(_, _, _)
SendToAll(out, cs, obj) ==
    IF cs = <<>> THEN out
    ELSE SendToAll(SendTo(out, Head(cs), obj), Tail(cs), obj)
\* Server.send_to: the pending entries that sending obj to cs records
Pending(cs, obj) ==
    IF Acknowledged(obj) THEN {<<a, obj>> : a \in Range(cs)} ELSE {}


\* ------------------------------------------------ network.py: GameServer
\* The handlers work on a record sv of the fields of the server object:
\* clients, timeouts, not_acknoledged, next_id, address_to_id, pressed_keys,
\* scope, radius_counter, position_counter; out[a] collects the datagrams
\* written to the socket for address a, raised tells that an exception is
\* propagating, resent, bcast and history record what the call did.

\* a connect that leaves the id counter where it is
NextIdSame(id) == id

\* "self.next_id += 1" of GameServer.handle_connect
NextId(id) == id + 1

\* a connect hook that creates no pressed-key set
handle_connect_no_keys(sv, a) ==
    LET id == sv.next_id
    IN [sv EXCEPT
          !.address_to_id = Put(@, a, id),
          !.next_id = NextId(id),
          !.scope.players = Put(@, id, NewPlayer(id)),
          !.not_acknoledged = @ \cup Pending(<<a>>, SetIdCommand(id)),
          !.out = SendTo(@, a, SetIdCommand(id)),
          !.history = Append(@, [hook |-> "connect", address |-> a, id |-> id])]

\* GameServer.handle_connect(new_address)
handle_connect(sv, a) ==
    LET id == sv.next_id
    IN [sv EXCEPT
          !.address_to_id = Put(@, a, id),
          !.next_id = NextId(id),
          !.scope.players = Put(@, id, NewPlayer(id)),
          !.pressed_keys = Put(@, id, {}),
          !.not_acknoledged = @ \cup Pending(<<a>>, SetIdCommand(id)),
          !.out = SendTo(@, a, SetIdCommand(id)),
          !.history = Append(@, [hook |-> "connect", address |-> a, id |-> id])]

\* a disconnect that leaves the player in the world
DelPlayerNot(players, id) == players

\* "del self.scope.players[id_]" of GameServer.handle_disconnect
DelPlayer(players, id) == Del(players, id)

\* GameServer.handle_disconnect(address); sv.clients no longer holds address
handle_disconnect(sv, a) ==
    LET id == sv.address_to_id[a]
        \* try: del players[id_]; del pressed_keys[id_]  except KeyError: pass
        hasPlayer == id \in DOMAIN sv.scope.players
    IN [sv EXCEPT
          !.scope.players = IF hasPlayer THEN DelPlayer(@, id) ELSE @,
          !.pressed_keys = IF hasPlayer /\ id \in DOMAIN @ THEN Del(@, id)
                           ELSE @,
          !.not_acknoledged = @ \cup Pending(sv.clients,
                                             RemovePlayerCommand(id)),
          !.out = SendToAll(@, sv.clients, RemovePlayerCommand(id)),
          !.history = Append(@, [hook |-> "disconnect", address |-> a,
                               id |-> id])]

\* a handle hook that ignores every payload
handle_ignoring(sv, a, obj) == sv

\* a handle hook whose key-up uses set.remove: KeyError when not pressed
handle_remove(sv, a, obj) ==
    LET id == sv.address_to_id[a]
    IN CASE obj.type = "KeyDown" ->
              IF id \in DOMAIN sv.pressed_keys
              THEN [sv EXCEPT !.pressed_keys[id] = @ \cup {obj.key}]
              ELSE [sv EXCEPT !.raised = TRUE]
         [] obj.type = "KeyUp" ->
              IF id \in DOMAIN sv.pressed_keys
                 /\ obj.key \in sv.pressed_keys[id]
              THEN [sv EXCEPT !.pressed_keys[id] = @ \ {obj.key}]
              ELSE [sv EXCEPT !.raised = TRUE]
         [] obj.type = "Ping" -> sv
         [] OTHER -> [sv EXCEPT !.raised = TRUE]

\* a handle hook that puts a Player back for a sender that has none
handle_respawn(sv, a, obj) ==
    LET id == sv.address_to_id[a]
        back == [sv EXCEPT !.scope.players =
                    IF id \in DOMAIN @ THEN @ ELSE Put(@, id, NewPlayer(id))]
    IN CASE obj.type = "KeyDown" ->
              IF id \in DOMAIN sv.pressed_keys
              THEN [back EXCEPT !.pressed_keys[id] = @ \cup {obj.key}]
              ELSE [sv EXCEPT !.raised = TRUE]
         [] obj.type = "KeyUp" ->
              IF id \in DOMAIN sv.pressed_keys
              THEN [back EXCEPT !.pressed_keys[id] = @ \ {obj.key}]
              ELSE [sv EXCEPT !.raised = TRUE]
         [] obj.type = "Ping" -> back
         [] OTHER -> [sv EXCEPT !.raised = TRUE]

\* GameServer.handle(address, obj)
handle(sv, a, obj) ==
    LET id == sv.address_to_id[a]
    IN CASE obj.type = "KeyDown" ->
              IF id \in DOMAIN sv.pressed_keys
              THEN [sv EXCEPT !.pressed_keys[id] = @ \cup {obj.key}]
              ELSE [sv EXCEPT !.raised = TRUE]
         [] obj.type = "KeyUp" ->
              IF id \in DOMAIN sv.pressed_keys
              THEN [sv EXCEPT !.pressed_keys[id] = @ \ {obj.key}]
              ELSE [sv EXCEPT !.raised = TRUE]
         [] obj.type = "Ping" -> sv
         [] OTHER -> [sv EXCEPT !.raised = TRUE]

\* an Acknowledge that clears every pending entry of its sender
AcknowledgementOfAll(pending, a, obj) == {e \in pending : e[1] # a}

\* the Acknowledge branch of Server._handle_message
Acknowledgement(pending, a, obj) == pending \ {<<a, obj.obj>>}

\* Server._handle_message(address, data)
handle_message(sv, a, obj) ==
    LET seen == [sv EXCEPT !.timeouts = Put(@, a, 0)]
    IN IF ~Decodable(obj) THEN [seen EXCEPT !.raised = TRUE]
       ELSE IF obj.type = "Acknowledge"
       THEN [seen EXCEPT
               !.not_acknoledged = Acknowledgement(@, a, obj)]
       ELSE handle(seen, a, obj)

\* Server._handle_connect(address, data)
server_handle_connect(sv, a, obj) ==
    The({handle_message(connected, a, obj) :
            connected \in {handle_connect([sv EXCEPT !.clients = Append(@, a)],
                                          a)}})

\* a disconnect that also forgets what the address has not acknowledged
server_handle_disconnect_purging(sv, a) ==
    handle_disconnect([sv EXCEPT !.clients = Remove(@, a),
                                 !.timeouts = Del(@, a),
                                 !.not_acknoledged = {e \in @ : e[1] # a}], a)

\* a disconnect that leaves the last-activity entry of the address
server_handle_disconnect_keeping(sv, a) ==
    handle_disconnect([sv EXCEPT !.clients = Remove(@, a)], a)

\* Server._handle_disconnect(address)
server_handle_disconnect(sv, a) ==
    handle_disconnect([sv EXCEPT !.clients = Remove(@, a),
                                 !.timeouts = Del(@, a)], a)

\* an idle test that takes the timeout for milliseconds
TimedOutMillis(idle) == idle > 1000 * client_timeout

\* the test of Server._check_disconnects on time.time() - last_active
TimedOut(idle) == idle > client_timeout

\* Server._check_disconnects over the snapshot list(self.timeouts.items());
\* the keys of timeouts are in the order of clients
RECURSIVE check_disconnects(_, _)
check_disconnects(sv, as) ==
    IF as = <<>> THEN sv
    ELSE LET a == Head(as)
         IN The({check_disconnects(checked, Tail(as)) :
                    checked \in {IF TimedOut(sv.timeouts[a])
                                 THEN server_handle_disconnect(sv, a)
                                 ELSE sv}})

\* Server._handle_messages: the loop over the queued datagrams ds, in the
\* order in which recvfrom returns them
RECURSIVE handle_messages(_, _)
handle_messages(sv, ds) ==
    IF ds = <<>> \/ sv.raised THEN sv
    ELSE LET d == Head(ds)
             next == IF ~startswith(d.data) THEN sv
                     ELSE IF d.address \in Range(sv.clients)
                     THEN handle_message(sv, d.address, d.data.body)
                     ELSE server_handle_connect(sv, d.address, d.data.body)
         IN The({handle_messages(handled, Tail(ds)) : handled \in {next}})

\* an update() that sends nothing again
ResendNothing(pending) == {}

\* Server.update: the pending entries that one update() sends again
Resend(pending) == pending

\* Server.update
server_update(sv) ==
    LET again == Resend(sv.not_acknoledged)
    IN [sv EXCEPT
          !.resent = again,
          !.out = [a \in Address |->
                     @[a] \cup {Encode(e[2]) : e \in {x \in again : x[1] = a}}]]

\* an elimination test with the comparison the wrong way round
Inside(position, circle_radius) == Abs(position) < circle_radius

\* the elimination test of GameServer.update
Outside(position, circle_radius) == Abs(position) > circle_radius

\* the body of "for id_, player in list(self.scope.players.items())" for one
\* id_; st carries the players, the broadcasts so far, the SetPositionCommand
\* counter, the calls that Player.collision has made (log) and whether the
\* lookup of the pressed keys raised KeyError
TickPlayer(st, id, pressed, dt, circle_radius) ==
    IF id \notin DOMAIN pressed THEN [st EXCEPT !.raised = TRUE]
    ELSE
    The(UNION {{
    LET player == players[id]
        position == SetPositionCommand(id, player.position,
                        player.last_acceleration, player.velocity, st.counter)
        outside == Outside(player.position, circle_radius)
    IN [players |-> IF outside THEN Del(players, id) ELSE players,
        bcast |-> st.bcast \o <<position>>
                  \o (IF outside THEN <<RemovePlayerCommand(id)>> ELSE <<>>),
        counter |-> st.counter + 1,
        log |-> st.log \o Exchanges(moved, id, SortedSeq(DOMAIN moved)),
        raised |-> FALSE] :
      players \in {Collision(moved, id, SortedSeq(DOMAIN moved))}} :
      moved \in {[st.players EXCEPT
                    ![id] = PlayerUpdate(@, pressed[id], dt)]}})

RECURSIVE TickPlayers(_, _, _, _, _)
TickPlayers(st, ids, pressed, dt, circle_radius) ==
    IF ids = <<>> \/ st.raised THEN st
    ELSE The({TickPlayers(ticked, Tail(ids), pressed, dt, circle_radius) :
                 ticked \in {TickPlayer(st, Head(ids), pressed, dt,
                                        circle_radius)}})

\* the datagrams and the pending entries of a sequence of send_to_all calls
RECURSIVE Broadcast(_, _)
Broadcast(sv, objs) ==
    IF objs = <<>> THEN sv
    ELSE The({Broadcast(sent, Tail(objs)) :
                 sent \in {[sv EXCEPT
                    !.out = SendToAll(@, sv.clients, Head(objs)),
                    !.not_acknoledged = @ \cup Pending(sv.clients,
                                                       Head(objs))]}})

\* history: the eliminations among the broadcasts of one tick
RECURSIVE Eliminations(_)
Eliminations(objs) ==
    IF objs = <<>> THEN <<>>
    ELSE (IF Head(objs).type = "RemovePlayer"
          THEN <<[hook |-> "eliminate", id |-> Head(objs).id_]>> ELSE <<>>)
         \o Eliminations(Tail(objs))

\* GameServer.update after "super().update()": the shrinking of the arena and
\* the loop over the players; dt is what self.clock.tick() / 1000 returns
tick(base, dt) ==
    LET shrink == base.scope.circle_radius > FloorRadius
        circle_radius == IF shrink
                         THEN base.scope.circle_radius - ShrinkNum * dt
                         ELSE base.scope.circle_radius
        first == IF shrink
                 THEN <<SetRadiusCommand(circle_radius, base.radius_counter)>>
                 ELSE <<>>
        loop == TickPlayers([players |-> base.scope.players, bcast |-> first,
                             counter |-> base.position_counter,
                             log |-> <<>>, raised |-> FALSE],
                            SortedSeq(DOMAIN base.scope.players),
                            base.pressed_keys, dt, circle_radius)
    IN The({Broadcast(ticked, ticked.bcast) :
              ticked \in UNION {{[base EXCEPT
                    !.scope.circle_radius = circle_radius,
                    !.scope.players = st.players,
                    !.radius_counter = IF shrink THEN @ + 1 ELSE @,
                    !.position_counter = st.counter,
                    !.bcast = st.bcast,
                    !.log = st.log,
                    !.history = @ \o Eliminations(st.bcast),
                    !.raised = st.raised]} : st \in {loop}}})

\* an update() that ticks first and sends the pending entries again last
update_resend_last(sv, dt) ==
    The({IF ticked.raised THEN ticked ELSE server_update(ticked) :
            ticked \in {tick(sv, dt)}})

\* GameServer.update: super().update(), then the tick
update(sv, dt) ==
    The({tick(base, dt) : base \in {server_update(sv)}})

\* a step() that scans for idle peers before it drains the socket
step_scan_first(sv, ds, dt) ==
    The({IF handled.raised THEN handled ELSE update(handled, dt) :
           handled \in UNION {{IF checked.raised THEN checked
                               ELSE handle_messages(checked, ds)} :
                              checked \in {check_disconnects(sv, sv.clients)}}})

\* Server.step for the queued datagrams ds
step(sv, ds, dt) ==
    The({IF checked.raised THEN checked ELSE update(checked, dt) :
           checked \in UNION {{IF handled.raised THEN handled
                               ELSE check_disconnects(handled,
                                                      handled.clients)} :
                              handled \in {handle_messages(sv, ds)}}})

\* the fields of the server object when step() is called
ServerFields ==
    [clients |-> clients, timeouts |-> timeouts,
     not_acknoledged |-> not_acknoledged, next_id |-> next_id,
     address_to_id |-> address_to_id, pressed_keys |-> pressed_keys,
     scope |-> scope, radius_counter |-> radius_counter,
     position_counter |-> position_counter, history |-> history,
     resent |-> {}, bcast |-> <<>>, log |-> <<>>, out |-> NoOut,
     raised |-> FALSE]

\* the orders in which a set of datagrams can be queued
RECURSIVE Orders(_)
Orders(S) ==
    IF S = {} THEN {<<>>}
    ELSE UNION {{<<d>> \o o : o \in Orders(S \ {d})} : d \in S}

\* Server.step(), called from the loop of MainMenuScene.start (or serve())
ServerStep ==
    /\ running
    /\ \E ds \in Orders(srv_queue) :
         \E sv \in {step(ServerFields, ds, since_tick)} :
            /\ sv.next_id <= MaxId + 1
            /\ clients' = sv.clients
            /\ timeouts' = sv.timeouts
            /\ not_acknoledged' = sv.not_acknoledged
            /\ next_id' = sv.next_id
            /\ address_to_id' = sv.address_to_id
            /\ pressed_keys' = sv.pressed_keys
            /\ scope' = sv.scope
            /\ radius_counter' = sv.radius_counter
            /\ position_counter' = sv.position_counter
            /\ history' = sv.history
            /\ resent' = sv.resent
            /\ running' = ~sv.raised
            /\ net' \in NetAfter(Address, sv.out)
            /\ events' = [op |-> "step", bcast |-> sv.bcast, drained |-> ds,
                          log |-> sv.log, idle |-> timeouts,
                          keys |-> pressed_keys]
    /\ srv_queue' = {}
    /\ since_tick' = 0
    /\ UNCHANGED <<late, foreign, cscope, max_count, crashed, codec, applied>>

\* step() while the counter of SetRadiusCommand is below its bound
Step == radius_counter < MaxCount /\ ServerStep

\* ------------------------------------------------------------------- time
\* The wall clock advances by d seconds between two calls of step():
\* time.time() - last_active grows for every peer, and so does the value the
\* next clock.tick() returns.
Advance(d) ==
    /\ running /\ radius_counter < MaxCount
    /\ since_tick + d <= MaxDt
    /\ since_tick' = since_tick + d
    /\ timeouts' = [a \in DOMAIN timeouts |-> Min(timeouts[a] + d, IdleCap)]
    /\ events' = [op |-> "env"]
    /\ UNCHANGED <<clients, not_acknoledged, next_id, address_to_id,
                   pressed_keys, scope, radius_counter, position_counter,
                   running, srv_queue, net, late, foreign, cscope, max_count,
                   crashed, resent, history,
                   codec, applied>>

\* ------------------------------------------------- main.py: the client
\* Client.send(obj) from MainScene.start: an input or the ping of one frame
ClientSend(a, obj) ==
    /\ ~crashed[a]
    /\ running /\ radius_counter < MaxCount
    /\ Cardinality(srv_queue \cup {[data |-> Encode(obj), address |-> a]})
         <= QueueCap
    /\ srv_queue' = srv_queue \cup {[data |-> Encode(obj), address |-> a]}
    /\ events' = [op |-> "env"]
    /\ UNCHANGED <<clients, timeouts, not_acknoledged, next_id, address_to_id,
                   pressed_keys, scope, since_tick, radius_counter,
                   position_counter, running, net, late, foreign, cscope,
                   max_count, crashed, resent, history,
                   codec, applied>>

\* "address[0] == self.host" of Client.recive
FromHost(source) == source.host = ServerHost

\* Client.recive() for the datagram d that recvfrom returns with the address
\* source, and "cmd.run(self.scope)" of MainScene.start for what it returns;
\* lost: the network loses the Acknowledge
recive(a, source, d, lost) ==
    IF ~(FromHost(source) /\ startswith(d))
    THEN /\ events' = [op |-> "dropped", address |-> a]
         /\ UNCHANGED <<srv_queue, cscope, max_count, crashed, applied>>
    ELSE IF ~Decodable(d.body)
    THEN /\ crashed' = [crashed EXCEPT ![a] = TRUE]
         /\ events' = [op |-> "raised", address |-> a]
         /\ UNCHANGED <<srv_queue, cscope, max_count, applied>>
    ELSE LET obj == d.body
             r == Run(obj, cscope[a], max_count[a])
             ack == [data |-> Encode(Acknowledge(obj)), address |-> a]
         IN /\ srv_queue' =
                 IF Acknowledged(obj) /\ ~lost
                    /\ Cardinality(srv_queue \cup {ack}) <= QueueCap
                 THEN srv_queue \cup {ack} ELSE srv_queue
            /\ cscope' = [cscope EXCEPT ![a] = r.scope]
            /\ max_count' = [max_count EXCEPT ![a] = r.max_count]
            /\ crashed' = [crashed EXCEPT ![a] = r.raised]
            /\ applied' = [applied EXCEPT ![a] =
                  IF ~r.raised
                     /\ (OnlyMostRecent(obj)
                           => Accepts(obj.count, max_count[a][obj.type]))
                  THEN @ \cup {obj} ELSE @]
            /\ events' = [op |-> "run", address |-> a, obj |-> obj,
                          sent |-> IF Acknowledged(obj)
                                   THEN <<Acknowledge(obj)>> ELSE <<>>,
                          rerun |-> /\ events.op = "run"
                                    /\ events.address = a
                                    /\ events.obj = obj]

\* One turn of "while cmd := self.client.recive(): cmd.run(self.scope)" for
\* the datagram d of the server.  The network may deliver d again later, also
\* after newer datagrams (again), and may lose the Acknowledge (lost).
ClientReceive(a, d, again, lost) ==
    /\ ~crashed[a]
    /\ d \in net[a] \cup late[a]
    /\ again => Cardinality(late[a] \cup {d}) <= LateCap
    /\ net' = [net EXCEPT ![a] = @ \ {d}]
    /\ late' = [late EXCEPT ![a] = IF again THEN @ \cup {d} ELSE @ \ {d}]
    /\ recive(a, ServerAddress, d, lost)
    /\ UNCHANGED <<clients, timeouts, not_acknoledged, next_id, address_to_id,
                   pressed_keys, scope, since_tick, radius_counter,
                   position_counter, running, foreign, resent, history,
                   codec>>

\* ------------------------------------------------------- other senders
\* what other senders put on the wire: a datagram without the protocol
\* identifier, one with the identifier and a body that is no pickle, and the
\* encoding of a command
ForeignData == {BadHeader(SetIdCommand(MaxId)), Encode(Garbage),
                Encode(SetIdCommand(MaxId))}

\* a datagram of another sender, with the source address a, reaches the
\* server socket
ForeignSend(a, data) ==
    /\ running /\ radius_counter < MaxCount
    /\ Cardinality(srv_queue \cup {[data |-> data, address |-> a]})
         <= QueueCap
    /\ srv_queue' = srv_queue \cup {[data |-> data, address |-> a]}
    /\ events' = [op |-> "env"]
    /\ UNCHANGED <<clients, timeouts, not_acknoledged, next_id, address_to_id,
                   pressed_keys, scope, since_tick, radius_counter,
                   position_counter, running, net, late, foreign, cscope,
                   max_count, crashed, resent, history,
                   codec, applied>>

\* a datagram of the sender at source reaches the socket of the client at a
ForeignDeliver(a, source, data) ==
    /\ ~crashed[a]
    /\ Cardinality(foreign[a] \cup {[source |-> source, data |-> data]})
         <= NetCap
    /\ foreign' = [foreign EXCEPT
                     ![a] = @ \cup {[source |-> source, data |-> data]}]
    /\ events' = [op |-> "env"]
    /\ UNCHANGED <<clients, timeouts, not_acknoledged, next_id, address_to_id,
                   pressed_keys, scope, since_tick, radius_counter,
                   position_counter, running, srv_queue, net, late, cscope,
                   max_count, crashed, resent, history,
                   codec, applied>>

\* the turn of the client's receive loop for the datagram f of another sender
ClientReceiveForeign(a, f) ==
    /\ ~crashed[a]
    /\ f \in foreign[a]
    /\ foreign' = [foreign EXCEPT ![a] = @ \ {f}]
    /\ recive(a, f.source, f.data, FALSE)
    /\ UNCHANGED <<clients, timeouts, not_acknoledged, next_id, address_to_id,
                   pressed_keys, scope, since_tick, radius_counter,
                   position_counter, running, net, late, resent, history,
                   codec>>

\* what the user at address a makes the client send: the first client plays,
\* the other ones only keep their connection alive
Player1 == "a1"
Inputs(a) ==
    IF a = Player1
    THEN {Ping} \cup {KeyDownInput(k) : k \in Keys}
                \cup {KeyUpInput(k) : k \in Keys}
    ELSE {Ping}

\* ------------------------------------------------------------------ Init
EmptyDict == [x \in {} |-> 0]
\* Scope()
NewScope == [id_ |-> None, circle_radius |-> InitRadius, players |-> EmptyDict]

Init ==
    /\ clients = <<>>
    /\ timeouts = EmptyDict
    /\ not_acknoledged = {}
    /\ next_id = 1
    /\ address_to_id = EmptyDict
    /\ pressed_keys = EmptyDict
    /\ scope = NewScope
    /\ since_tick = 0
    /\ radius_counter = 0
    /\ position_counter = 0
    /\ running = TRUE
    /\ srv_queue = {}
    /\ net = [a \in Address |-> {}]
    /\ late = [a \in Address |-> {}]
    /\ foreign = [a \in Address |-> {}]
    /\ cscope = [a \in Address |-> NewScope]
    /\ max_count = [a \in Address |-> [SetRadius |-> 0, SetPosition |-> 0]]
    /\ crashed = [a \in Address |-> FALSE]
    /\ resent = {}
    /\ history = <<>>
    /\ events = [op |-> "init"]
    /\ len = 0
    /\ codec = [x |-> NoObject, y |-> NoObject, next_oid |-> 1]
    /\ applied = [a \in Address |-> {}]

\* one more action of a run of at most MaxLen actions
Counted == len < MaxLen /\ len' = len + 1

\* The server, the clock and the clients over a network that loses datagrams.
Next ==
    \/ Step /\ Counted
    \/ \E d \in TimeSteps : Advance(d) /\ Counted
    \/ \E a \in Address : \E obj \in Inputs(a) : ClientSend(a, obj) /\ Counted
    \/ \E a \in Address : \E d \in net[a] : \E lost \in BOOLEAN :
          ClientReceive(a, d, FALSE, lost) /\ Counted

Spec == Init /\ [][Next]_vars

\* The same with one playing client, over a network that also duplicates and
\* reorders the datagrams towards the client.
NextDup ==
    \/ Step /\ Counted
    \/ \E d \in TimeSteps : Advance(d) /\ Counted
    \/ \E obj \in Inputs(Player1) : ClientSend(Player1, obj) /\ Counted
    \/ \E a \in Address : \E d \in net[a] \cup late[a] :
          \E again, lost \in BOOLEAN :
             ClientReceive(a, d, again, lost) /\ Counted

SpecDup == Init /\ [][NextDup]_vars

\* The server and one client, with other senders that write to both sockets.
NextForeign ==
    \/ Step /\ Counted
    \/ \E d \in TimeSteps : Advance(d) /\ Counted
    \/ \E obj \in Inputs(Player1) : ClientSend(Player1, obj) /\ Counted
    \/ \E d \in net[Player1] :
          ClientReceive(Player1, d, FALSE, FALSE) /\ Counted
    \/ \E a \in Address : \E data \in ForeignData :
          ForeignSend(a, data) /\ Counted
    \/ \E source \in Sources : \E data \in ForeignData :
          ForeignDeliver(Player1, source, data) /\ Counted
    \/ \E f \in foreign[Player1] : ClientReceiveForeign(Player1, f) /\ Counted

SpecForeign == Init /\ [][NextForeign]_vars

\* ------------------------------------------------- a channel in order
\* The datagram d is the next one for the client at a on a channel that
\* does not reorder: no command of its latest-only type that was constructed
\* (and so sent) before it is still on its way.
InOrder(a, d) ==
    \A e \in net[a] :
       (/\ OnlyMostRecent(d.body) /\ e.body.type = d.body.type)
       => d.body.count <= e.body.count

\* The server and the clients over a network that loses datagrams and
\* neither duplicates nor reorders them.
NextFifo ==
    \/ Step /\ Counted
    \/ \E d \in TimeSteps : Advance(d) /\ Counted
    \/ \E a \in Address : \E obj \in Inputs(a) : ClientSend(a, obj) /\ Counted
    \/ \E a \in Address : \E d \in net[a] : \E lost \in BOOLEAN :
          InOrder(a, d) /\ ClientReceive(a, d, FALSE, lost) /\ Counted

SpecFifo == Init /\ [][NextFifo]_vars

\* --------------------------------------------------- a long session
\* one more action of a run of at most MaxLong actions
CountedLong == len < MaxLong /\ len' = len + 1

\* One client that only pings, over a network that loses datagrams, for
\* more calls of step() than Spec takes: the client can connect, time out,
\* connect again and acknowledge what it was sent.
NextReconnect ==
    \/ ServerStep /\ CountedLong
    \/ \E d \in TimeSteps : Advance(d) /\ CountedLong
    \/ ClientSend(Player1, Ping) /\ CountedLong
    \/ \E d \in net[Player1] :
          ClientReceive(Player1, d, FALSE, FALSE) /\ CountedLong

SpecReconnect == Init /\ [][NextReconnect]_vars

\* ------------------------------------------------------ two players
\* A game in progress: the clients at a1 and a2 have connected, one tick has
\* been broadcast and the client at a1 has applied all of it.  The player of
\* a1 is in the centre and moves to the right, the player of a2 is to its
\* right, overlapping it (0.8 units away) or not (3 units away), and moves
\* towards it or away from it, 2 units per second each.
ArenaPositions == {8, 30}
ArenaVelocities == {-2 * Scale, 2 * Scale}
ArenaPlayers(p, v) ==
    [id \in {1, 2} |->
       IF id = 1 THEN [NewPlayer(1) EXCEPT !.velocity = 2 * Scale]
       ELSE [NewPlayer(2) EXCEPT !.position = p, !.velocity = v]]

InitArena ==
    \E p \in ArenaPositions : \E v \in ArenaVelocities :
    /\ clients = <<"a1", "a2">>
    /\ timeouts = [a \in Address |-> 0]
    /\ not_acknoledged = {<<"a2", SetIdCommand(2)>>}
    /\ next_id = 3
    /\ address_to_id = [a \in Address |-> IF a = "a1" THEN 1 ELSE 2]
    /\ pressed_keys = [id \in {1, 2} |-> {}]
    /\ scope = [NewScope EXCEPT !.players = ArenaPlayers(p, v)]
    /\ since_tick = 0
    /\ radius_counter = 1
    /\ position_counter = 2
    /\ running = TRUE
    /\ srv_queue = {}
    /\ net = [a \in Address |-> {}]
    /\ late = [a \in Address |-> {}]
    /\ foreign = [a \in Address |-> {}]
    /\ cscope = [a \in Address |->
                   IF a = "a1"
                   THEN [NewScope EXCEPT !.id_ = 1,
                                         !.players = ArenaPlayers(p, v)]
                   ELSE NewScope]
    /\ max_count = [a \in Address |->
                      [SetRadius |-> 0,
                       SetPosition |-> IF a = "a1" THEN 1 ELSE 0]]
    /\ crashed = [a \in Address |-> FALSE]
    /\ resent = {}
    /\ history = <<[hook |-> "connect", address |-> "a1", id |-> 1],
                   [hook |-> "connect", address |-> "a2", id |-> 2]>>
    /\ events = [op |-> "init"]
    /\ len = 0
    /\ codec = [x |-> NoObject, y |-> NoObject, next_oid |-> 1]
    /\ applied = [a \in Address |->
                    IF a = "a1"
                    THEN {SetIdCommand(1),
                          SetRadiusCommand(InitRadius, 0),
                          SetPositionCommand(1, 0, 0, 2 * Scale, 0),
                          SetPositionCommand(2, p, 0, v, 1)}
                    ELSE {}]

\* the network holds the datagram d back: datagrams sent after it reach the
\* client at a before it
Delay(a, d) ==
    /\ ~crashed[a]
    /\ d \in net[a]
    /\ Cardinality(late[a] \cup {d}) <= LateCap
    /\ net' = [net EXCEPT ![a] = @ \ {d}]
    /\ late' = [late EXCEPT ![a] = @ \cup {d}]
    /\ events' = [op |-> "env"]
    /\ UNCHANGED <<clients, timeouts, not_acknoledged, next_id, address_to_id,
                   pressed_keys, scope, since_tick, radius_counter,
                   position_counter, running, srv_queue, foreign, cscope,
                   max_count, crashed, resent, history, codec, applied>>

\* The two players over a network that loses, duplicates and reorders the
\* datagrams towards the clients; the user at a2 has stopped sending.
NextArena ==
    \/ Step /\ Counted
    \/ \E d \in TimeSteps : Advance(d) /\ Counted
    \/ \E obj \in Inputs(Player1) : ClientSend(Player1, obj) /\ Counted
    \/ \E a \in Address : \E d \in net[a] : Delay(a, d) /\ Counted
    \/ \E a \in Address : \E d \in net[a] \cup late[a] :
          \E again, lost \in BOOLEAN :
             ClientReceive(a, d, again, lost) /\ Counted

SpecArena == InitArena /\ [][NextArena]_vars

\* The server has made one step() 44 seconds after its construction, with
\* nobody connected: the arena has shrunk to 2.4 units, just above its floor.
NearFloor == InitRadius - ShrinkNum * 44
InitFloor ==
    /\ clients = <<>>
    /\ timeouts = EmptyDict
    /\ not_acknoledged = {}
    /\ next_id = 1
    /\ address_to_id = EmptyDict
    /\ pressed_keys = EmptyDict
    /\ scope = [NewScope EXCEPT !.circle_radius = NearFloor]
    /\ since_tick = 0
    /\ radius_counter = 1
    /\ position_counter = 0
    /\ running = TRUE
    /\ srv_queue = {}
    /\ net = [a \in Address |-> {}]
    /\ late = [a \in Address |-> {}]
    /\ foreign = [a \in Address |-> {}]
    /\ cscope = [a \in Address |-> NewScope]
    /\ max_count = [a \in Address |-> [SetRadius |-> 0, SetPosition |-> 0]]
    /\ crashed = [a \in Address |-> FALSE]
    /\ resent = {}
    /\ history = <<>>
    /\ events = [op |-> "init"]
    /\ len = 0
    /\ codec = [x |-> NoObject, y |-> NoObject, next_oid |-> 1]
    /\ applied = [a \in Address |-> {}]

SpecFloor == InitFloor /\ [][Next]_vars

\* ---------------------------------------------------------------- codec
\* the payloads of every variant that the program sends
Payloads ==
    {SetIdCommand(i) : i \in 1..MaxId}
    \cup {RemovePlayerCommand(i) : i \in 1..MaxId}
    \cup {SetRadiusCommand(r, c) : r \in {InitRadius, FloorRadius},
                                   c \in 0..MaxCount}
    \cup {SetPositionCommand(i, p, 0, v, c) :
             i \in {1}, p \in {0, radius}, v \in {0, -1}, c \in {0, MaxCount}}
    \cup {KeyDownInput(k) : k \in Keys} \cup {KeyUpInput(k) : k \in Keys}
    \cup {Ping}
    \cup {Acknowledge(SetIdCommand(i)) : i \in 1..MaxId}
    \cup {Acknowledge(RemovePlayerCommand(i)) : i \in 1..MaxId}

\* the variables of the server, the network and the clients
world == <<clients, timeouts, not_acknoledged, next_id, address_to_id,
           pressed_keys, scope, since_tick, radius_counter, position_counter,
           running, srv_queue, net, late, foreign, cscope, max_count, crashed,
           resent, history, events, len, applied>>

\* the program constructs a payload
Construct(val) ==
    /\ codec.next_oid <= MaxOid
    /\ codec' = [x |-> new(val, codec.next_oid), y |-> NoObject,
                 next_oid |-> codec.next_oid + 1]
    /\ UNCHANGED world

\* the payload is encoded by the sender and decoded by the receiver
RoundTrip ==
    /\ codec.x # NoObject
    /\ codec.y = NoObject
    /\ codec' = [codec EXCEPT !.y = decode(encode(codec.x), codec.next_oid),
                              !.next_oid = @ + 1]
    /\ UNCHANGED world

NextCodec ==
    \/ \E val \in Payloads : Construct(val)
    \/ RoundTrip

SpecCodec == Init /\ [][NextCodec]_vars

\* ------------------------------------------------------------- liveness
\* The server has made one step() 45 seconds after its construction, with
\* nobody connected: the arena is at its floor, where update() no longer
\* shrinks it, so that SetRadiusCommand._global_counter stays where it is.
InitLive ==
    /\ clients = <<>>
    /\ timeouts = EmptyDict
    /\ not_acknoledged = {}
    /\ next_id = 1
    /\ address_to_id = EmptyDict
    /\ pressed_keys = EmptyDict
    /\ scope = [NewScope EXCEPT !.circle_radius = FloorRadius]
    /\ since_tick = 0
    /\ radius_counter = 1
    /\ position_counter = 0
    /\ running = TRUE
    /\ srv_queue = {}
    /\ net = [a \in Address |-> {}]
    /\ late = [a \in Address |-> {}]
    /\ foreign = [a \in Address |-> {}]
    /\ cscope = [a \in Address |-> NewScope]
    /\ max_count = [a \in Address |-> [SetRadius |-> 0, SetPosition |-> 0]]
    /\ crashed = [a \in Address |-> FALSE]
    /\ resent = {}
    /\ history = <<>>
    /\ events = [op |-> "init"]
    /\ len = 0
    /\ codec = [x |-> NoObject, y |-> NoObject, next_oid |-> 1]
    /\ applied = [a \in Address |-> {}]

\* the run has reached a bound of the model: the counter of
\* SetPositionCommand, or a connect that would take an id above MaxId
LiveBound ==
    \/ position_counter >= MaxCount
    \/ next_id > MaxId /\ \E d \in srv_queue : d.address \notin Range(clients)

\* step() below the bounds
StepLive == ~LiveBound /\ ServerStep /\ UNCHANGED len

\* the turn of the client's receive loop for some datagram in its buffer
Poll(a) ==
    /\ ~LiveBound
    /\ \E d \in net[a] : \E lost \in BOOLEAN : ClientReceive(a, d, FALSE, lost)
    /\ UNCHANGED len

\* what the client sends while it waits for its id: the key that its user
\* holds down (a Ping would keep the connection alive in the same way)
LiveInputs == {KeyDownInput(k) : k \in Keys}

\* the runs of SpecLive are not cut at MaxLen actions
NextLive ==
    \/ StepLive
    \/ \E d \in TimeSteps : ~LiveBound /\ Advance(d) /\ UNCHANGED len
    \/ \E obj \in LiveInputs :
          ~LiveBound /\ ClientSend(Player1, obj) /\ UNCHANGED len
    \/ Poll(Player1)

\* a step() sends a SetId to a and the network delivers it
Delivered(a) ==
    StepLive /\ \E i \in 1..MaxId : Encode(SetIdCommand(i)) \in net'[a]
\* the client at a receives a SetId and the network delivers its Acknowledge
AckDelivered(a) ==
    /\ ~LiveBound
    /\ \E i \in 1..MaxId :
          /\ ClientReceive(a, Encode(SetIdCommand(i)), FALSE, FALSE)
          /\ [data |-> Encode(Acknowledge(SetIdCommand(i))), address |-> a]
                \in srv_queue'
    /\ UNCHANGED len

\* The server loop keeps calling step() and the client keeps polling (weak
\* fairness); each direction of the channel delivers infinitely often what is
\* sent infinitely often (strong fairness).
FairLive ==
    /\ WF_vars(StepLive)
    /\ WF_vars(Poll(Player1))
    /\ SF_vars(Delivered(Player1))
    /\ SF_vars(AckDelivered(Player1))

SpecLive == InitLive /\ [][NextLive]_vars /\ FairLive

\* a step() sends datagrams to a and the network delivers one of them
DeliveredAny(a) == StepLive /\ ~(net'[a] \subseteq net[a])
\* the client at a receives an acknowledged command and the network delivers
\* its Acknowledge
AckDeliveredAny(a) ==
    /\ ~LiveBound
    /\ \E d \in net[a] :
          /\ Acknowledged(d.body)
          /\ ClientReceive(a, d, FALSE, FALSE)
          /\ [data |-> Encode(Acknowledge(d.body)), address |-> a]
                \in srv_queue'
    /\ UNCHANGED len

\* The same, over a channel that delivers infinitely often whatever is sent
\* infinitely often, in both directions.
SpecLiveAll ==
    /\ InitLive /\ [][NextLive]_vars /\ FairLive
    /\ SF_vars(DeliveredAny(Player1))
    /\ SF_vars(AckDeliveredAny(Player1))

\* ================================================================ claims
\* the last action made the client at a run the command events'.obj
Ran(a) == events'.op = "run" /\ events'.address = a
\* the last action was a call of step() that returned
Stepped == events'.op = "step" /\ running'
\* the datagram (a, Acknowledge(p)) is queued at the server socket
AckQueued(a, p) ==
    [data |-> Encode(Acknowledge(p)), address |-> a] \in srv_queue
\* the entries of history made by the last action
NewHistory == {history'[i] : i \in (Len(history) + 1)..Len(history')}

\* C1 (as claimed): running RemovePlayer(id) on a replica that holds no Player
\* at id changes nothing and raises nothing, so the client keeps running.
C1_RemoveAbsentIsNoOp ==
    [][\A a \in Address :
         (Ran(a) /\ events'.obj.type = "RemovePlayer"
            /\ events'.obj.id_ \notin DOMAIN cscope[a].players)
         => (~crashed'[a] /\ cscope'[a] = cscope[a])]_vars

\* C2: a step() re-sends every entry that was pending before it and is not
\* acknowledged by a datagram it drains, and it re-sends nothing else but what
\* the same step() sent afresh (the SetId of a connect, the RemovePlayer of a
\* disconnect); an acknowledged entry is not sent again.
C2_Fresh(e) ==
    \/ e[2].type = "SetId" /\ e[2].id_ >= next_id
    \/ e[2].type = "RemovePlayer"
         /\ \E h \in NewHistory : h.hook = "disconnect" /\ h.id = e[2].id_
C2_ResendUntilAcknowledged ==
    [][Stepped =>
         /\ \A e \in not_acknoledged :
               ~AckQueued(e[1], e[2]) => e \in resent'
         /\ \A e \in resent' :
               \/ e \in not_acknoledged /\ ~AckQueued(e[1], e[2])
               \/ C2_Fresh(e)]_vars
\* a step() has drained the Acknowledge of an entry that an earlier step()
\* had re-sent, and has not sent the entry again
C2_Witness ==
    /\ events.op = "step"
    /\ \E a \in Address :
         /\ cscope[a].id_ # None
         /\ <<a, SetIdCommand(cscope[a].id_)>> \notin resent
         /\ <<a, SetIdCommand(cscope[a].id_)>> \notin not_acknoledged
         /\ \E e \in resent : e[1] = a

\* C3: a step() removes every registered peer that has been idle for longer
\* than the timeout and has no datagram queued, and runs the disconnect hook
\* once for it; no PlayerId ever has two disconnects; a datagram from an
\* address that is not registered makes the step() run the connect hook for
\* it, with a PlayerId that no earlier connect had.
C3_Lifecycle ==
    [][Stepped =>
         /\ \A a \in Range(clients) :
               (timeouts[a] > client_timeout
                  /\ \A d \in srv_queue : d.address # a)
               => /\ a \notin Range(clients')
                  /\ a \notin DOMAIN timeouts'
                  /\ Cardinality({i \in DOMAIN history' :
                        history'[i] = [hook |-> "disconnect", address |-> a,
                                       id |-> address_to_id[a]]}) = 1
         /\ \A i, j \in DOMAIN history' :
               (history'[i].hook = "disconnect"
                  /\ history'[j].hook = "disconnect"
                  /\ history'[i].id = history'[j].id) => i = j
         /\ \A d \in srv_queue :
               (d.address \notin Range(clients)
                  /\ d.data.header = PROTOCOL_ID)
               => \E h \in NewHistory :
                     /\ h.hook = "connect" /\ h.address = d.address
                     /\ h.id >= next_id
                     /\ \A e \in Range(history) : e.id # h.id
                     /\ address_to_id'[d.address] = h.id]_vars
\* an address has timed out, has been disconnected and has connected again
C3_Witness ==
    \E i, j, k \in DOMAIN history :
        /\ i < j /\ j < k
        /\ history[i].hook = "connect" /\ history[j].hook = "disconnect"
        /\ history[k].hook = "connect"
        /\ history[i].address = history[j].address
        /\ history[j].address = history[k].address
        /\ history[i].id = history[j].id

\* C4: a latest-only command is applied if and only if its sequence number is
\* greater than or equal to the watermark of its type, and then the watermark
\* becomes that number; otherwise replica and watermark stay as they are.
C4_LatestOnlyApply ==
    [][\A a \in Address :
         (Ran(a) /\ OnlyMostRecent(events'.obj)) =>
            LET obj == events'.obj IN
            IF obj.count >= max_count[a][obj.type]
            THEN /\ max_count'[a] =
                       [max_count[a] EXCEPT ![obj.type] = obj.count]
                 /\ cscope'[a].id_ = cscope[a].id_
                 /\ IF obj.type = "SetRadius"
                    THEN /\ cscope'[a].circle_radius = obj.radius
                         /\ cscope'[a].players = cscope[a].players
                    ELSE /\ cscope'[a].circle_radius = cscope[a].circle_radius
                         /\ DOMAIN cscope'[a].players =
                               DOMAIN cscope[a].players \cup {obj.id_}
                         /\ cscope'[a].players[obj.id_].position = obj.position
                         /\ cscope'[a].players[obj.id_].velocity = obj.velocity
                         /\ \A i \in DOMAIN cscope[a].players \ {obj.id_} :
                               cscope'[a].players[i] = cscope[a].players[i]
            ELSE /\ cscope'[a] = cscope[a]
                 /\ max_count'[a] = max_count[a]]_vars
\* a command older than the watermark has been discarded, after a newer one
\* of its type had changed the replica
C4_Witness ==
    /\ events.op = "run"
    /\ OnlyMostRecent(events.obj)
    /\ events.obj.count < max_count[events.address][events.obj.type]
    /\ events.obj.type = "SetRadius"
         => cscope[events.address].circle_radius # events.obj.radius

\* C5: running the same latest-only command a second time, right after the
\* first, changes neither the replica nor the watermark.
C5_LatestOnlyIdempotent ==
    [][\A a \in Address :
         (Ran(a) /\ OnlyMostRecent(events'.obj) /\ events'.rerun)
         => (cscope'[a] = cscope[a] /\ max_count'[a] = max_count[a])]_vars
\* a SetPlayerPosition with a position other than the centre has been applied
\* twice in a row
C5_Witness ==
    /\ events.op = "run"
    /\ events.rerun
    /\ events.obj.type = "SetPosition"
    /\ events.obj.position # 0
    /\ events.obj.count = max_count[events.address]["SetPosition"]
    /\ events.obj.id_ \in DOMAIN cscope[events.address].players
    /\ cscope[events.address].players[events.obj.id_].position
          = events.obj.position

\* C6 (as claimed): the RemovePlayer of an eliminated player is sent to a
\* client once: no later step() sends it to that client again.
C6_RemoveSentOnce ==
    [][Stepped =>
         \A e \in not_acknoledged :
            (e[2].type = "RemovePlayer"
               /\ [hook |-> "eliminate", id |-> e[2].id_] \in Range(history))
            => e \notin resent']_vars

\* C6 (amended): a tick removes exactly the players that it has moved to a
\* distance from the centre greater than the radius it has set, it sends one
\* RemovePlayer for each of them to every registered peer, and that command
\* stays pending for each of those peers (so it is sent again by every later
\* step() until the peer acknowledges it).
C6_Elimination ==
    [][Stepped =>
         LET b == events'.bcast
             removed == {b[i].id_ : i \in {j \in DOMAIN b :
                                              b[j].type = "RemovePlayer"}}
         IN /\ \A id \in DOMAIN scope'.players :
                  ~(Abs(scope'.players[id].position) > scope'.circle_radius)
            /\ \A i \in DOMAIN b :
                  b[i].type = "RemovePlayer" =>
                     /\ b[i].id_ \notin DOMAIN scope'.players
                     /\ i > 1 /\ b[i - 1].type = "SetPosition"
                     /\ b[i - 1].id_ = b[i].id_
                     /\ Abs(b[i - 1].position) > scope'.circle_radius
                     /\ \A j \in DOMAIN b : b[j] = b[i] => j = i
                     /\ \A a \in Range(clients') :
                           /\ <<a, b[i]>> \in not_acknoledged'
                           /\ <<a, b[i]>> \notin resent'
            /\ DOMAIN scope'.players \cap removed = {}]_vars
\* a tick has eliminated a player while a peer was registered, and a later
\* step() has sent the RemovePlayer to that peer again
C6_Witness ==
    /\ events.op = "step"
    /\ \E e \in resent :
          /\ e[2].type = "RemovePlayer"
          /\ e[1] \in Range(clients)
          /\ [hook |-> "eliminate", id |-> e[2].id_] \in Range(history)
          /\ e[2].id_ \notin DOMAIN scope.players

\* the id that the registered peer at address a owns
Owns(a, i) == a \in Range(clients) /\ address_to_id[a] = i

\* C8 (as claimed): a Player with id i is in the server's world if and only
\* if a registered peer owns i.
C8_PlayerIffConnected ==
    \A i \in DOMAIN scope.players
             \cup {address_to_id[a] : a \in Range(clients)} :
       i \in DOMAIN scope.players <=> \E a \in Address : Owns(a, i)

\* C8 (amended): a Player with id i is in the server's world only if a
\* registered peer owns i, and a registered peer owns no Player only if a
\* tick has eliminated its Player.
C8_PlayerOnlyIfConnected ==
    /\ \A i \in DOMAIN scope.players : \E a \in Address : Owns(a, i)
    /\ \A a \in Range(clients) :
          address_to_id[a] \notin DOMAIN scope.players
          => [hook |-> "eliminate", id |-> address_to_id[a]]
                \in Range(history)
\* a peer has been disconnected, and its Player removed, while another peer
\* and its Player stay; and a peer whose Player was eliminated is registered
C8_Witness ==
    /\ events.op = "step"
    /\ \E a, b \in Address :
          /\ Owns(a, address_to_id[a])
          /\ address_to_id[a] \notin DOMAIN scope.players
          /\ b \notin Range(clients)
          /\ b \in DOMAIN address_to_id
          /\ address_to_id[b] \notin DOMAIN scope.players
          /\ [hook |-> "disconnect", address |-> b, id |-> address_to_id[b]]
                \in Range(history)

\* C9: the connects of a server get strictly increasing PlayerIds, so no two
\* connects get the same id, also when an address connects again; and no two
\* registered addresses own the same id.
C9_IdsIncreaseNeverReused ==
    /\ \A i, j \in DOMAIN history :
          (i < j /\ history[i].hook = "connect"
             /\ history[j].hook = "connect")
          => history[i].id < history[j].id
    /\ \A a, b \in Range(clients) :
          a # b => address_to_id[a] # address_to_id[b]
    /\ \A a \in Range(clients) : address_to_id[a] < next_id
\* two addresses are registered, one of them after a timeout and a reconnect
C9_Witness ==
    /\ Cardinality(Range(clients)) = 2
    /\ \E i, j, k \in DOMAIN history :
          /\ i < j /\ j < k
          /\ history[i].hook = "connect" /\ history[j].hook = "disconnect"
          /\ history[k].hook = "connect"
          /\ history[i].address = history[k].address
          /\ history[j].address = history[k].address
          /\ address_to_id[history[k].address] = history[k].id

\* C10: an entry leaves the pending collection only in a step() that drains
\* an Acknowledge naming its payload from its address; the disconnect of the
\* address does not remove its entries, and every step() sends the entries of
\* an address that is no longer registered again.
C10_PendingUntilAcknowledged ==
    [][/\ \A e \in not_acknoledged :
             e \notin not_acknoledged'
             => (events'.op = "step" /\ AckQueued(e[1], e[2]))
       /\ Stepped =>
             \A e \in not_acknoledged' :
                e[1] \notin Range(clients') => e \in resent']_vars
\* a step() has re-sent an entry to an address that an earlier step() had
\* disconnected
C10_Witness ==
    /\ events.op = "step"
    /\ \E e \in resent :
          /\ e[1] \notin Range(clients)
          /\ \E i \in DOMAIN history :
                /\ history[i].hook = "disconnect"
                /\ history[i].address = e[1]
                /\ i < Len(history)

Acks == {d \in srv_queue : /\ d.data.header = PROTOCOL_ID
                           /\ d.data.body.type = "Acknowledge"}

C12_ResendLast ==
    [][Stepped => not_acknoledged' \subseteq resent']_vars

\* the entry e was first made pending by the tick of the last step(): the
\* RemovePlayer of an elimination
C12_FromTick(e) ==
    /\ e \in not_acknoledged' \ not_acknoledged
    /\ e[2].type = "RemovePlayer"
    /\ \E h \in NewHistory : h.hook = "eliminate" /\ h.id = e[2].id_
    /\ ~\E h \in NewHistory : h.hook = "disconnect" /\ h.id = e[2].id_

\* C12 (amended): within one step() the datagrams are drained first, then the
\* idle peers are disconnected, then update() sends every entry again that is
\* pending at that point, and the simulation tick comes last.  So a peer
\* whose datagram the step() drains is not disconnected by it, a player that
\* it disconnects is not ticked, the entries of its connects and disconnects
\* are sent again by the same step(), and the entries that its tick makes
\* pending are not.
C12_ResendBeforeTick ==
    [][Stepped =>
         /\ \A h \in NewHistory :
               h.hook = "disconnect" =>
                  /\ \A d \in srv_queue :
                        d.data.header = PROTOCOL_ID => d.address # h.address
                  /\ \A i \in DOMAIN events'.bcast :
                        events'.bcast[i].type = "SetPosition"
                        => events'.bcast[i].id_ # h.id
                  /\ \A c \in Range(clients') :
                        <<c, RemovePlayerCommand(h.id)>> \in resent'
         /\ \A h \in NewHistory :
               (h.hook = "connect"
                  /\ <<h.address, SetIdCommand(h.id)>> \in not_acknoledged')
               => <<h.address, SetIdCommand(h.id)>> \in resent'
         /\ \A e \in not_acknoledged' : C12_FromTick(e) => e \notin resent'
         /\ \A e \in not_acknoledged' :
               e \notin resent' => C12_FromTick(e)]_vars
\* a step() has connected a peer and has sent its SetId again, and its tick
\* has eliminated a player, whose RemovePlayer it has not sent again
C12_Witness ==
    /\ events.op = "step"
    /\ running
    /\ \E a \in Range(clients) :
          /\ <<a, SetIdCommand(address_to_id[a])>> \in resent
          /\ history[Len(history)] = [hook |-> "eliminate",
                                      id |-> address_to_id[a]]
          /\ <<a, RemovePlayerCommand(address_to_id[a])>>
                \in not_acknoledged \ resent

\* C13: a step() that drains only datagrams without the protocol identifier
\* returns, registers no peer, runs no connect hook, changes no pressed-key
\* set and refreshes no last-activity time (a sender that has been idle for
\* longer than the timeout is disconnected all the same); the client drops
\* such a datagram: it runs nothing, sends no Acknowledge and keeps running.
C13_NoPrefixNoEffect ==
    [][/\ (/\ events'.op = "step"
           /\ srv_queue # {}
           /\ \A d \in srv_queue : d.data.header # PROTOCOL_ID)
          => /\ running'
             /\ next_id' = next_id
             /\ Range(clients') \subseteq Range(clients)
             /\ not_acknoledged \subseteq not_acknoledged'
             /\ ~\E h \in NewHistory : h.hook = "connect"
             /\ \A i \in DOMAIN pressed_keys \cap DOMAIN pressed_keys' :
                   pressed_keys'[i] = pressed_keys[i]
             /\ \A d \in srv_queue :
                   d.address \in Range(clients) =>
                      IF TimedOut(timeouts[d.address])
                      THEN d.address \notin Range(clients')
                      ELSE timeouts'[d.address] = timeouts[d.address]
       /\ \A a \in Address : \A f \in foreign[a] :
             (f \notin foreign'[a] /\ f.data.header # PROTOCOL_ID)
             => /\ events'.op = "dropped"
                /\ ~crashed'[a]
                /\ cscope' = cscope
                /\ max_count' = max_count
                /\ srv_queue' = srv_queue]_vars
\* a step() has drained a datagram without the protocol identifier that came
\* from the address of a registered peer, and has disconnected that peer
\* because the datagram did not refresh its last-activity time
C13_Witness ==
    /\ events.op = "step"
    /\ running
    /\ \E i \in DOMAIN events.drained :
          /\ events.drained[i].data.header # PROTOCOL_ID
          /\ events.drained[i].address \notin Range(clients)
          /\ \E j \in DOMAIN history :
                /\ history[j].hook = "disconnect"
                /\ history[j].address = events.drained[i].address
                /\ \A k \in DOMAIN history :
                      (k > j) => history[k].hook = "eliminate"

\* C14 (as claimed): a datagram with the protocol identifier and a body that
\* cannot be decoded is dropped without a trace: a step() that drains only
\* such datagrams returns, registers no peer and runs no connect hook, and
\* the client's receive loop that reads one keeps running.
C14_UndecodableDropped ==
    [][/\ (/\ events'.op = "step"
           /\ srv_queue # {}
           /\ \A d \in srv_queue : d.data = Encode(Garbage))
          => /\ running'
             /\ next_id' = next_id
             /\ Range(clients') \subseteq Range(clients)
             /\ ~\E h \in NewHistory : h.hook = "connect"
       /\ \A a \in Address : \A f \in foreign[a] :
             (f \notin foreign'[a] /\ f.data = Encode(Garbage))
             => /\ ~crashed'[a]
                /\ cscope' = cscope]_vars

\* C15 (as claimed): the client drops every datagram whose source is not the
\* (host, port) of the server, here one whose body is a pickle: it runs
\* nothing, sends no Acknowledge and keeps running.
C15_OnlyServerAddress ==
    [][\A a \in Address : \A f \in foreign[a] :
          (/\ f \notin foreign'[a]
           /\ f.source # ServerAddress
           /\ f.data.body # Garbage)
          => /\ events'.op = "dropped"
             /\ ~crashed'[a]
             /\ cscope' = cscope
             /\ max_count' = max_count
             /\ srv_queue' = srv_queue]_vars

\* C16: a step() whose first datagram carries a payload that is neither a
\* key-down, a key-up nor a ping input (and no Acknowledge, which the handle
\* hook never sees) raises in the handle hook: step() does not return, and
\* the players and the pressed-key sets are what they were before the call of
\* the hook, that is, unchanged for a registered sender, and with the player
\* and the empty key set of the connect hook for a new one.
C16_HandleRaises ==
    [][(/\ events'.op = "step"
        /\ events'.drained # <<>>
        /\ events'.drained[1].data.header = PROTOCOL_ID
        /\ events'.drained[1].data.body.type
              \notin {"KeyDown", "KeyUp", "Ping", "Acknowledge", "Garbage"})
       => /\ ~running'
          /\ IF events'.drained[1].address \in Range(clients)
             THEN /\ scope' = scope
                  /\ pressed_keys' = pressed_keys
             ELSE /\ scope' = [scope EXCEPT !.players =
                                 Put(@, next_id, NewPlayer(next_id))]
                  /\ pressed_keys' = Put(pressed_keys, next_id, {})]_vars
\* a step() has raised on a SetId command that came from the address of a
\* registered peer, and the key that this peer holds down is still recorded
C16_Witness ==
    /\ events.op = "step"
    /\ ~running
    /\ events.drained # <<>>
    /\ events.drained[1].data = Encode(SetIdCommand(MaxId))
    /\ events.drained[1].address \in Range(clients)
    /\ address_to_id[events.drained[1].address] \in DOMAIN scope.players
    /\ pressed_keys[address_to_id[events.drained[1].address]] # {}

\* C17 (as claimed): when a step() has run the disconnect hook for a peer,
\* the server holds neither a Player nor a pressed-key set for the id of that
\* peer, also when its player had been eliminated before, and a RemovePlayer
\* for the id is pending for every peer that is still registered.
C17_DisconnectCleansUp ==
    [][Stepped =>
         \A h \in NewHistory :
            h.hook = "disconnect" =>
               /\ h.id \notin DOMAIN scope'.players
               /\ h.id \notin DOMAIN pressed_keys'
               /\ \A c \in Range(clients') :
                     <<c, RemovePlayerCommand(h.id)>> \in not_acknoledged']_vars

\* C18 (as claimed): a step() never increases the arena radius; when it
\* starts with the radius above the floor it decreases the radius by 0.4
\* units per elapsed second and broadcasts a SetRadius with the new value
\* first; the radius never goes below the floor, and at the floor a step()
\* leaves it alone and broadcasts no SetRadius.
C18_RadiusFloor ==
    [][Stepped =>
         /\ scope'.circle_radius <= scope.circle_radius
         /\ scope'.circle_radius >= FloorRadius
         /\ IF scope.circle_radius > FloorRadius
            THEN /\ scope'.circle_radius
                      = scope.circle_radius - ShrinkNum * since_tick
                 /\ events'.bcast # <<>>
                 /\ events'.bcast[1] = SetRadiusCommand(scope'.circle_radius,
                                                        radius_counter)
            ELSE /\ scope'.circle_radius = scope.circle_radius
                 /\ \A i \in DOMAIN events'.bcast :
                       events'.bcast[i].type # "SetRadius"]_vars

\* C19 (as claimed): the replica radius of a client that is registered, also
\* one that has connected after the arena has reached its floor, eventually
\* equals the radius of the server, as long as the client keeps polling (it
\* has not crashed) and stays registered.
C19_RadiusEventuallyConsistent ==
    (Player1 \in Range(clients))
    ~> \/ cscope[Player1].circle_radius = scope.circle_radius
       \/ crashed[Player1]
       \/ Player1 \notin Range(clients)
       \/ LiveBound

\* C20 (as claimed): decoding the encoding of a payload of any variant gives
\* an object of the same variant that is equal to the payload under the
\* program's own equality.
C20_RoundTrip ==
    codec.y # NoObject
    => /\ codec.y.val.type = codec.x.val.type
       /\ Eq(codec.y, codec.x)

\* ------------------------------------------------------------------ C21
\* the call e of the loop body of Player.collision has found its condition
\* true: self has the larger id and the two discs overlap
Resolved(e) ==
    /\ e.self > e.other
    /\ Abs(e.before[1].position - e.before[2].position) < radius + radius

\* C21: a collision resolution between two overlapping players (of mass 50
\* each) exchanges their velocities and leaves their positions unchanged.
C21_EqualMassExchange ==
    [][events'.op = "step" =>
         \A i \in DOMAIN events'.log :
            LET e == events'.log[i]
            IN Resolved(e) =>
                 /\ e.after[1].velocity = e.before[2].velocity
                 /\ e.after[2].velocity = e.before[1].velocity
                 /\ e.after[1].position = e.before[1].position
                 /\ e.after[2].position = e.before[2].position]_vars

\* a step() has resolved the collision of two players that moved towards
\* each other at 2 units per second: each now has the other's velocity
C21_Witness ==
    /\ events.op = "step"
    /\ \E i \in DOMAIN events.log :
          LET e == events.log[i]
          IN /\ Resolved(e)
             /\ e.before[1].velocity = -2 * Scale
             /\ e.before[2].velocity = 2 * Scale
             /\ e.after[1].velocity = 2 * Scale
             /\ e.after[2].velocity = -2 * Scale

\* ------------------------------------------------------------------ C22
\* C22: a latest-only command is applied only if no instance of its type
\* with an equal or higher sequence number has been applied before: the
\* delivery of one that has does not change the replica (a duplicate
\* SetPlayerPosition after a RemovePlayer does not re-create the player).
C22_AppliedOnce ==
    [][\A a \in Address :
         (/\ Ran(a)
          /\ OnlyMostRecent(events'.obj)
          /\ \E o \in applied[a] : /\ o.type = events'.obj.type
                                    /\ o.count >= events'.obj.count)
         => cscope'[a] = cscope[a]]_vars

\* ------------------------------------------------------------------ C23
\* C23: once a client has applied RemovePlayer(id), no command delivered
\* later re-creates a Player at id on its replica; here for the commands
\* that arrive for the first time, with a sequence number above all those
\* applied before (a SetPlayerPosition constructed before the RemovePlayer
\* and overtaken by it).
C23_NoResurrection ==
    [][\A a \in Address : \A id \in 1..MaxId :
         (/\ Ran(a)
          /\ RemovePlayerCommand(id) \in applied[a]
          /\ id \notin DOMAIN cscope[a].players
          /\ ~\E o \in applied[a] :
                 /\ OnlyMostRecent(events'.obj)
                 /\ o.type = events'.obj.type
                 /\ o.count >= events'.obj.count)
         => id \notin DOMAIN cscope'[a].players]_vars

\* ------------------------------------------------------------------ C24
\* C24: a registered peer that has a datagram (with the protocol
\* identifier) queued at the socket when step() starts is not disconnected
\* by that step(), however old its last-activity timestamp is: it stays
\* registered under its id and no disconnect hook runs for it.
C24_QueuedPeerKept ==
    [][events'.op = "step" =>
         \A d \in srv_queue :
            (d.address \in Range(clients) /\ startswith(d.data))
            => /\ d.address \in Range(clients')
               /\ address_to_id'[d.address] = address_to_id[d.address]
               /\ \A h \in NewHistory :
                     ~(h.hook = "disconnect" /\ h.address = d.address)]_vars

\* a step() has drained a datagram of a peer that had been idle for longer
\* than the timeout, and the peer is still registered
C24_Witness ==
    /\ events.op = "step" /\ running
    /\ \E i \in DOMAIN events.drained :
          LET a == events.drained[i].address
          IN /\ a \in DOMAIN events.idle
             /\ events.idle[a] > client_timeout
             /\ a \in Range(clients)
             /\ timeouts[a] = 0

\* ------------------------------------------------------------------ C25
\* the commands of type t applied on the replica of the client at a
AppliedOfType(a, t) == {o \in applied[a] : o.type = t}

\* C25: the watermark of SetPlayerPosition is per type, not per player: a
\* SetPlayerPosition for a player B with a number below that of an applied
\* SetPlayerPosition for another player A is discarded and leaves the
\* replica (B's entry or its absence) unchanged.  The numbers of SetRadius
\* do not affect the watermark of SetPlayerPosition, nor the other way
\* round: a command of either type with a number not below those of its own
\* type applied before is applied, and leaves the other watermark alone.
C25_WatermarkPerType ==
    [][\A a \in Address :
         (Ran(a) /\ OnlyMostRecent(events'.obj)) =>
           LET obj == events'.obj
               other == IF obj.type = "SetPosition" THEN "SetRadius"
                        ELSE "SetPosition"
           IN /\ (/\ obj.type = "SetPosition"
                  /\ \E o \in AppliedOfType(a, "SetPosition") :
                        o.id_ # obj.id_ /\ obj.count < o.count)
                 => /\ cscope'[a] = cscope[a]
                    /\ max_count'[a] = max_count[a]
              /\ max_count'[a][other] = max_count[a][other]
              /\ (\A o \in AppliedOfType(a, obj.type) : o.count <= obj.count)
                 => /\ max_count'[a][obj.type] = obj.count
                    /\ obj.type = "SetRadius"
                         => cscope'[a].circle_radius = obj.radius
                    /\ obj.type = "SetPosition"
                         => /\ obj.id_ \in DOMAIN cscope'[a].players
                            /\ cscope'[a].players[obj.id_].position
                                 = obj.position]_vars

\* a client has discarded a SetPlayerPosition, delivered for the first time,
\* because it had applied one for another player with a higher number; the
\* velocity that the command carries is not the one on the replica
C25_Witness ==
    /\ events.op = "run"
    /\ events.obj.type = "SetPosition"
    /\ LET a == events.address
       IN /\ events.obj \notin applied[a]
          /\ \E o \in AppliedOfType(a, "SetPosition") :
                o.id_ # events.obj.id_ /\ o.count > events.obj.count
          /\ events.obj.id_ \in DOMAIN cscope[a].players
          /\ cscope[a].players[events.obj.id_].velocity
               # events.obj.velocity

\* ------------------------------------------------------------------ C26
\* C26: every time Client.recive() decodes a SetId or a RemovePlayer, also
\* one it has decoded before, it sends exactly one Acknowledge naming that
\* payload, and nothing else; for a SetRadius or a SetPlayerPosition it
\* sends nothing.
C26_AcknowledgeEachTime ==
    [][\A a \in Address :
         Ran(a) =>
           LET obj == events'.obj
               ack == [data |-> Encode(Acknowledge(obj)), address |-> a]
           IN IF obj.type \in {"SetId", "RemovePlayer"}
              THEN /\ events'.sent = <<[type |-> "Acknowledge", obj |-> obj]>>
                   /\ srv_queue' \in {srv_queue, srv_queue \cup {ack}}
              ELSE /\ events'.sent = <<>>
                   /\ srv_queue' = srv_queue]_vars

\* a client has decoded the same SetId twice in a row and has sent an
\* Acknowledge for it the second time as well
C26_Witness ==
    /\ events.op = "run" /\ events.rerun
    /\ events.obj.type = "SetId"
    /\ Len(events.sent) = 1
    /\ events.sent[1].obj = events.obj
    /\ AckQueued(events.address, events.obj)

\* ------------------------------------------------------------------ C27
\* the datagram d carries an input
IsInput(d) ==
    /\ startswith(d.data) /\ Decodable(d.data.body)
    /\ d.data.body.type \in {"KeyDown", "KeyUp", "Ping"}

\* C27: when step() drains an input that is the first datagram of an
\* unknown address, the connect hook has completed before the input is
\* handled: the step() raises nothing, the address is registered under a
\* newly allocated id, a Player was inserted at that id (the tick of the
\* same step() may eliminate it), its SetId is pending and was sent, and the
\* pressed-key set of the id exists and holds the key of a key-down, and
\* nothing else.
C27_ConnectBeforeHandle ==
    [][events'.op = "step" =>
         \A d \in srv_queue :
            (/\ IsInput(d)
             /\ d.address \notin Range(clients)
             /\ \A e \in srv_queue : e.address = d.address => e = d)
            => /\ running'
               /\ d.address \in Range(clients')
               /\ \E h \in NewHistory :
                     /\ h = [hook |-> "connect", address |-> d.address,
                             id |-> address_to_id'[d.address]]
                     /\ h.id >= next_id /\ h.id < next_id'
                     /\ \/ h.id \in DOMAIN scope'.players
                        \/ [hook |-> "eliminate", id |-> h.id] \in NewHistory
                     /\ <<d.address, SetIdCommand(h.id)>> \in not_acknoledged'
                     /\ <<d.address, SetIdCommand(h.id)>> \in resent'
                     /\ h.id \in DOMAIN pressed_keys'
                     /\ pressed_keys'[h.id] =
                          IF d.data.body.type = "KeyDown"
                          THEN {d.data.body.key} ELSE {}]_vars

\* the first datagram of an address was a key-down: the address is now
\* registered and the key is in its pressed-key set
C27_Witness ==
    /\ events.op = "step" /\ running
    /\ \E i \in DOMAIN events.drained :
          LET d == events.drained[i]
          IN /\ d.data.body.type = "KeyDown"
             /\ d.address \notin DOMAIN events.idle
             /\ d.address \in Range(clients)
             /\ pressed_keys[address_to_id[d.address]] = {d.data.body.key}

\* ------------------------------------------------------------------ C28
\* C28: when step() drains one input of a registered peer, it raises
\* nothing; a key-down adds its key to the pressed-key set of the peer, a
\* key-up removes it, pressed before or not, and no other pressed-key set
\* changes; after a ping the server is in the state in which the same step()
\* without the ping leaves it when the peer's timestamp is fresh.
C28_InputHandling ==
    [][events'.op = "step" =>
         \A d \in srv_queue :
            (IsInput(d) /\ d.address \in Range(clients) /\ srv_queue = {d})
            => LET id == address_to_id[d.address]
                   obj == d.data.body
               IN /\ running'
                  /\ pressed_keys'[id] =
                       CASE obj.type = "KeyDown" ->
                              pressed_keys[id] \cup {obj.key}
                         [] obj.type = "KeyUp" -> pressed_keys[id] \ {obj.key}
                         [] obj.type = "Ping" -> pressed_keys[id]
                  /\ \A j \in DOMAIN pressed_keys' \ {id} :
                        /\ j \in DOMAIN pressed_keys
                        /\ pressed_keys'[j] = pressed_keys[j]
                  /\ obj.type = "Ping" =>
                       \A ref \in {step([ServerFields EXCEPT
                                           !.timeouts = Put(@, d.address, 0)],
                                        <<>>, since_tick)} :
                          /\ scope' = ref.scope
                          /\ pressed_keys' = ref.pressed_keys
                          /\ clients' = ref.clients
                          /\ timeouts' = ref.timeouts
                          /\ not_acknoledged' = ref.not_acknoledged
                          /\ next_id' = ref.next_id
                          /\ address_to_id' = ref.address_to_id
                          /\ events'.bcast = ref.bcast
                          /\ resent' = ref.resent]_vars

\* a step() has drained the key-up of a key that was not pressed and keeps
\* running, with the key not pressed
C28_Witness ==
    /\ events.op = "step" /\ running
    /\ \E i \in DOMAIN events.drained :
          LET d == events.drained[i]
          IN /\ d.data.body.type = "KeyUp"
             /\ d.address \in DOMAIN events.idle
             /\ d.address \in Range(clients)
             /\ address_to_id[d.address] \in DOMAIN events.keys
             /\ d.data.body.key \notin events.keys[address_to_id[d.address]]
             /\ d.data.body.key \notin pressed_keys[address_to_id[d.address]]

\* ------------------------------------------------------------------ C29
\* C29: in one tick only a call of the loop body of Player.collision made by
\* the player with the larger id, for a pair that overlaps, changes
\* anything; there is at most one such call for each pair; and the two new
\* velocities are those of an elastic collision of the two velocities that
\* the pair has when the call is made, which for the larger id is its
\* velocity after its own move of this tick and for the smaller id the one
\* after its move earlier in the tick.  When the two are alone in the arena
\* the tick ends with the velocities that the call has assigned.
C29_ExchangeOncePerPair ==
    [][events'.op = "step" =>
         LET log == events'.log
         IN /\ \A i \in DOMAIN log :
                  /\ log[i].after # log[i].before => Resolved(log[i])
                  /\ Resolved(log[i]) =>
                       LET u == log[i].before[1].velocity
                           U == log[i].before[2].velocity
                       IN /\ log[i].after[1].velocity * (mass + mass)
                               = 2 * mass * U - mass * u + mass * u
                          /\ log[i].after[2].velocity * (mass + mass)
                               = mass * U - U * mass + 2 * mass * u
            /\ \A i, j \in DOMAIN log :
                  (/\ Resolved(log[i]) /\ Resolved(log[j])
                   /\ {log[i].self, log[i].other}
                        = {log[j].self, log[j].other})
                  => i = j
            /\ \A i \in DOMAIN log :
                  (/\ Resolved(log[i])
                   /\ DOMAIN scope.players = {log[i].self, log[i].other}
                   /\ DOMAIN scope'.players = DOMAIN scope.players)
                  => /\ log[i].before[1] =
                          PlayerUpdate(scope.players[log[i].self],
                                       pressed_keys'[log[i].self], since_tick)
                     /\ log[i].before[2] =
                          PlayerUpdate(scope.players[log[i].other],
                                       pressed_keys'[log[i].other],
                                       since_tick)
                     /\ scope'.players[log[i].self] = log[i].after[1]
                     /\ scope'.players[log[i].other] = log[i].after[2]]_vars

\* in the last tick both players had their turn, exactly one call of the
\* loop body changed velocities, that of player 2 against player 1, and the
\* two players have the velocities it assigned
C29_Witness ==
    /\ events.op = "step" /\ running
    /\ DOMAIN scope.players = {1, 2}
    /\ Len(events.log) = 4
    /\ Cardinality({i \in DOMAIN events.log :
                       events.log[i].after # events.log[i].before}) = 1
    /\ \E i \in DOMAIN events.log :
          /\ events.log[i].after # events.log[i].before
          /\ events.log[i].self = 2 /\ events.log[i].other = 1
          /\ scope.players[2].velocity = events.log[i].after[1].velocity
          /\ scope.players[1].velocity = events.log[i].after[2].velocity

\* ------------------------------------------------------------------ C30
\* C30: for every player that survives a tick, the SetPlayerPosition that
\* the tick broadcasts for it carries the position and the velocity that the
\* player has in the world of the server when the tick ends.
C30_BroadcastIsFinalState ==
    [][Stepped =>
         \A id \in DOMAIN scope'.players :
            \E i \in DOMAIN events'.bcast :
               /\ events'.bcast[i].type = "SetPosition"
               /\ events'.bcast[i].id_ = id
               /\ events'.bcast[i].position = scope'.players[id].position
               /\ events'.bcast[i].velocity = scope'.players[id].velocity]_vars

\* ------------------------------------------------------------------ C35
\* C35: between two calls of step() no address occurs twice in
\* Server.clients, and the addresses in it are exactly the keys of
\* Server.timeouts.
C35_ClientsMatchTimeouts ==
    /\ \A i, j \in DOMAIN clients : clients[i] = clients[j] => i = j
    /\ Range(clients) = DOMAIN timeouts

\* an address has timed out and has connected again while another address
\* stayed registered: both are in clients, the reconnected one last
C35_Witness ==
    /\ Len(clients) = 2
    /\ \E i, j \in DOMAIN history :
          /\ i < j
          /\ history[i].hook = "disconnect"
          /\ history[j].hook = "connect"
          /\ history[i].address = clients[2]
          /\ history[j].address = clients[2]
    /\ DOMAIN timeouts = {clients[1], clients[2]}

\* ------------------------------------------------------------------ C32
\* C32: every id in the players of the server's world has a pressed-key
\* set, and no step() has failed: the lookup self.pressed_keys[id_] of the
\* tick has found its key.
C32_PlayersHaveKeys ==
    /\ DOMAIN scope.players \subseteq DOMAIN pressed_keys
    /\ running

\* a player was eliminated and its peer has been disconnected later, the
\* pressed-key set of that id is still there, and another player is in the
\* world with its pressed-key set
C32_Witness ==
    /\ running
    /\ scope.players # EmptyDict
    /\ \E i, j \in DOMAIN history :
          /\ i < j
          /\ history[i].hook = "eliminate"
          /\ history[j].hook = "disconnect"
          /\ history[i].id = history[j].id
          /\ history[i].id \in DOMAIN pressed_keys
          /\ history[i].id \notin DOMAIN scope.players

\* ------------------------------------------------------------------ C33
\* the ids of the players that a tick has eliminated
Eliminated(h) == {h[i].id : i \in {j \in DOMAIN h : h[j].hook = "eliminate"}}

\* C33: the id of an eliminated player is never in the server's world
\* again.  A step() that drains an input of a registered peer whose player
\* was eliminated raises nothing, keeps the peer registered under its id and
\* applies the input to its pressed-key set.  An address that has no Player
\* gets one only in a step() that runs the connect hook for it, under an id
\* that was never allocated before.
C33_EliminatedStaysOut ==
    [][/\ \A id \in Eliminated(history') : id \notin DOMAIN scope'.players
       /\ events'.op = "step" =>
            \A d \in srv_queue :
               (/\ IsInput(d) /\ srv_queue = {d}
                /\ d.address \in Range(clients)
                /\ address_to_id[d.address] \in Eliminated(history))
               => LET id == address_to_id[d.address]
                      obj == d.data.body
                  IN /\ running'
                     /\ d.address \in Range(clients')
                     /\ address_to_id'[d.address] = id
                     /\ pressed_keys'[id] =
                          CASE obj.type = "KeyDown" ->
                                 pressed_keys[id] \cup {obj.key}
                            [] obj.type = "KeyUp" ->
                                 pressed_keys[id] \ {obj.key}
                            [] obj.type = "Ping" -> pressed_keys[id]
       /\ \A a \in Address :
            (/\ ~(a \in Range(clients)
                  /\ address_to_id[a] \in DOMAIN scope.players)
             /\ a \in Range(clients')
             /\ address_to_id'[a] \in DOMAIN scope'.players)
            => /\ [hook |-> "connect", address |-> a,
                    id |-> address_to_id'[a]] \in NewHistory
               /\ address_to_id'[a] >= next_id]_vars

\* a step() has drained an input of a peer whose player had been eliminated
\* by an earlier tick: the peer is registered, under the same id, and has no
\* Player
C33_Witness ==
    /\ events.op = "step" /\ running
    /\ \E i \in DOMAIN events.drained :
          LET a == events.drained[i].address
          IN /\ a \in DOMAIN events.idle
             /\ a \in Range(clients)
             /\ address_to_id[a] \in Eliminated(history)
             /\ \A k \in DOMAIN events.bcast :
                   events.bcast[k] # RemovePlayerCommand(address_to_id[a])
             /\ address_to_id[a] \notin DOMAIN scope.players
             /\ events.drained[i].data.body.type = "KeyUp"
             /\ address_to_id[a] \in DOMAIN events.keys
             /\ events.keys[address_to_id[a]] # pressed_keys[address_to_id[a]]

\* ------------------------------------------------------------------ C34
\* the commands of type t among the broadcasts b, in the order of the calls
OfType(b, t) == SelectSeq(b, LAMBDA o : o.type = t)

\* C34: the numbers of each latest-only type start at 0 and go up by one
\* with each command constructed; a datagram carries its command with the
\* number it was constructed with; and over a channel that loses datagrams
\* but neither reorders nor duplicates them a client applies every
\* latest-only command it receives: its number is not below the watermark
\* and above that of every command of its type applied before, the
\* watermark becomes its number and the replica takes its content.
C34_InOrderAllApplied ==
    [][/\ events.op = "init" => radius_counter = 0 /\ position_counter = 0
       /\ events'.op = "step" =>
            /\ \A t \in {"SetRadius", "SetPosition"} :
                  LET made == OfType(events'.bcast, t)
                      first == IF t = "SetRadius" THEN radius_counter
                               ELSE position_counter
                      last == IF t = "SetRadius" THEN radius_counter'
                              ELSE position_counter'
                  IN /\ \A i \in DOMAIN made : made[i].count = first + i - 1
                     /\ last = first + Len(made)
            /\ \A a \in Address : \A d \in net'[a] \ net[a] :
                  OnlyMostRecent(d.body) =>
                     \E i \in DOMAIN events'.bcast :
                        d = Encode(events'.bcast[i])
       /\ \A a \in Address :
            (Ran(a) /\ OnlyMostRecent(events'.obj)) =>
               LET obj == events'.obj
               IN /\ obj.count >= max_count[a][obj.type]
                  /\ \A o \in AppliedOfType(a, obj.type) : o.count < obj.count
                  /\ max_count'[a][obj.type] = obj.count
                  /\ ~crashed'[a]
                  /\ obj.type = "SetRadius"
                       => cscope'[a].circle_radius = obj.radius
                  /\ obj.type = "SetPosition"
                       => /\ obj.id_ \in DOMAIN cscope'[a].players
                          /\ cscope'[a].players[obj.id_].position
                               = obj.position
                          /\ cscope'[a].players[obj.id_].velocity
                               = obj.velocity]_vars

\* a client has applied the first SetPlayerPosition ever constructed, with
\* the number 0, and then one with a number that is not the next one: those
\* in between were lost
C34_Witness ==
    /\ events.op = "run"
    /\ events.obj.type = "SetPosition"
    /\ events.obj.count > 1
    /\ max_count[events.address]["SetPosition"] = events.obj.count
    /\ AppliedOfType(events.address, "SetPosition")
         = {events.obj} \cup {o \in AppliedOfType(events.address,
                                                  "SetPosition") : o.count = 0}
    /\ \E o \in applied[events.address] :
          o.type = "SetPosition" /\ o.count = 0

\* ------------------------------------------------------------------ C31
\* C31: when the server has no SetId pending for the address of a
\* registered peer, the id held by the client at that address (Scope.id_)
\* is the id that the server maps the address to.
C31_OwnIdIsMappedId ==
    \A a \in Range(clients) :
       (\A e \in not_acknoledged : ~(e[1] = a /\ e[2].type = "SetId"))
       => cscope[a].id_ = address_to_id[a]

====
